---- MODULE Spec2Model ----
(***************************************************************************)
(* Rock-paper-scissors against a language model (akokubo/rps_langchain).   *)
(*                                                                         *)
(* The console program app_cli.py: a module-level history list, the two    *)
(* workflow nodes choose_assistant_move and determine_result_and_update,   *)
(* and the main input loop that runs the workflow once per legal input.    *)
(* The page program app.py: the same two nodes written over the history    *)
(* carried in the state dict, and the script that Streamlit runs from top  *)
(* to bottom on every event of the session.                                *)
(*                                                                         *)
(* Text is a sequence of characters.  The module language has no Japanese  *)
(* letters, so each character is written by a romanised name:              *)
(*   "gu" = U+30B0, "bar" = U+30FC (long vowel mark), "chi" = U+30C1,      *)
(*   "yo" = U+30E7 (small), "ki" = U+30AD, "pa" = U+30D1,                  *)
(*   "sen" "taku" = the two letters of the word "choice" in the marker,    *)
(*   "ya" "me" "ru" = the letters of the quit word,                        *)
(*   "gu_h" = U+3050 (hiragana gu), "nl" = line feed, "tab" = tab,         *)
(*   "zsp" = U+3000 (ideographic space); "[", "]", ":", " " are themselves.*)
(***************************************************************************)
EXTENDS Integers, Sequences, FiniteSets, TLC

VARIABLES
    history,      \* app_cli.py:16  the module-level list of round records
    state,        \* the GameState passed through the workflow (history aside)
    user_input,   \* app_cli.py:157 the line most recently read by the loop
    pc,           \* where the program is: the loop, a workflow node, or ended
    response,     \* app_cli.py:83  content of the completion being processed
    drew,         \* whether random.choice was called for the current round
    prompt,       \* the prompt text of the most recent completion call
    llm_calls,    \* number of calls of llm.invoke made so far
    completed,    \* number of times app.invoke has returned to the loop
    st_history,   \* app.py:123  st.session_state.history, also state["history"]
    session,      \* app.py:124-129 st.session_state: user_choice, assistant_choice, result
    st_state,     \* app.py:143  the state dict of the script run (history aside)
    st_pc,        \* where the page program is: between runs, or in a node
    button,       \* app.py:134-138 the button that returned True in this run
    clicks,       \* number of button clicks so far
    st_prompt     \* the prompt text of the page's most recent completion call

\* the variables of app_cli.py and those of app.py
cli_vars == <<history, state, user_input, pc, response, drew, prompt, llm_calls, completed>>
page_vars == <<st_history, session, st_state, st_pc, button, clicks, st_prompt>>

vars == <<cli_vars, page_vars>>

\* Number of rounds the loop is allowed to start.
MaxRounds == 2

\* Number of direct calls of determine_result_and_update (ResolverSpec).
MaxCalls == 3

-----------------------------------------------------------------------------
(* Moves and literals                                                       *)

gu == <<"gu", "bar">>
choki == <<"chi", "yo", "ki">>
pa == <<"pa", "bar">>

\* app_cli.py:17
choices == <<gu, choki, pa>>

\* x in choices (list membership)
InChoices(x) == \E i \in DOMAIN choices : choices[i] = x

\* app_cli.py:160
yameru == <<"ya", "me", "ru">>

\* the result texts of lines 108, 112, 114
aiko == "aiko desu"
kachi == "anata no kachi desu"
make == "anata no make desu"

\* the first argument of the first replace, line 87: "[" sen taku ":" " "
LeadingMarker == <<"[", "sen", "taku", ":", " ">>
\* the first argument of the second replace, line 87
ClosingMarker == <<"]">>

\* a key of a dict that has not been set / a variable not yet bound
Absent == <<"<absent>">>

\* the characters str.strip() removes
Whitespace == {" ", "nl", "tab", "zsp"}

-----------------------------------------------------------------------------
(* String functions                                                         *)

SetMin(S) == CHOOSE x \in S : \A y \in S : x <= y
SetMax(S) == CHOOSE x \in S : \A y \in S : x >= y

\* str.strip(): drop the leading and the trailing run of whitespace
strip(s) ==
    LET keep == {i \in 1..Len(s) : s[i] \notin Whitespace}
    IN  IF keep = {} THEN <<>> ELSE SubSeq(s, SetMin(keep), SetMax(keep))

\* str.replace(old, new), old not empty: one pass from the left over
\* non-overlapping occurrences of old; the text produced is not rescanned
RECURSIVE replace(_, _, _)
replace(s, old, new) ==
    IF Len(s) < Len(old) THEN s
    ELSE IF SubSeq(s, 1, Len(old)) = old
         THEN new \o replace(SubSeq(s, Len(old) + 1, Len(s)), old, new)
         ELSE <<Head(s)>> \o replace(Tail(s), old, new)

\* str.replace(old, new, 1): the first occurrence only
replace_first(s, old, new) ==
    LET at == {i \in 1..(Len(s) - Len(old) + 1) : SubSeq(s, i, i + Len(old) - 1) = old}
    IN  IF at = {} THEN s
        ELSE SubSeq(s, 1, SetMin(at) - 1) \o new
                 \o SubSeq(s, SetMin(at) + Len(old), Len(s))

\* line 87 with each marker removed once
extract_choice_first_only(content) ==
    replace_first(replace_first(strip(content), LeadingMarker, <<>>), ClosingMarker, <<>>)

\* line 87 without the strip()
extract_choice_no_strip(content) ==
    replace(replace(content, LeadingMarker, <<>>), ClosingMarker, <<>>)

\* a get_history that returns the list as it was before the last append
get_history_stale(h) == SubSeq(h, 1, Len(h) - 1)

\* lines 32-35: get_history returns the module-level list
get_history(h) == h

\* line 87: response.content.strip().replace(LeadingMarker, "").replace("]", "")
extract_choice(content) ==
    replace(replace(strip(content), LeadingMarker, <<>>), ClosingMarker, <<>>)

\* the candidate stored without the test of line 91
unchecked_choice(candidate, k) == candidate

\* lines 91-92: the candidate if it is in choices, else random.choice(choices),
\* k being the index the random generator picks
checked_choice(candidate, k) ==
    IF ~InChoices(candidate) THEN choices[k] ELSE candidate

\* str(dict) of one record and str(list) of the history, as a sequence of
\* text pieces (the move names character by character)
str_record(r) ==
    <<"{'round': ", ToString(r.round), ", 'you': '">> \o r.you
        \o <<"', 'assistant': '">> \o r.assistant
        \o <<"', 'result': '", r.result, "'}">>

RECURSIVE str_items(_)
str_items(h) ==
    IF h = <<>> THEN <<>>
    ELSE IF Len(h) = 1 THEN str_record(h[1])
    ELSE str_record(h[1]) \o <<", ">> \o str_items(Tail(h))

str(h) == <<"[">> \o str_items(h) \o <<"]">>

\* a template that also has the placeholder {user_choice}
format_with_user_choice(user_choice, h) ==
    <<"You are the opponent in rock-paper-scissors.", "Past history: ">>
        \o str(h)
        \o <<"The user chose: ">> \o user_choice
        \o <<"Choices: ">> \o gu \o <<", ">> \o choki \o <<", ">> \o pa
        \o <<"Considering the user's tendency, return the hand most likely ",
             "to win in the form [choice: hand].">>

\* lines 60-67 and 83: prompt.format(user_choice=..., history=str(h)); the
\* template has the one placeholder {history}, so user_choice is not rendered
format(user_choice, h) ==
    <<"You are the opponent in rock-paper-scissors.", "Past history: ">>
        \o str(h)
        \o <<"Choices: ">> \o gu \o <<", ">> \o choki \o <<", ">> \o pa
        \o <<"Considering the user's tendency, return the hand most likely ",
             "to win in the form [choice: hand].">>

-----------------------------------------------------------------------------
(* The workflow nodes                                                       *)

\* line 144: workflow.set_entry_point("choose_move")
entry_point == "choose_move"

\* choose_move wired to END, determine_result left out of the path
edge_skips_result(node) ==
    IF node = "choose_move" THEN "END" ELSE "determine_result"

\* lines 140-141: the node that follows a node
edge(node) ==
    IF node = "choose_move" THEN "determine_result" ELSE "END"

\* the third winning pair written as (pa, choki)
result_of_wrong_pair(user_choice, assistant_choice) ==
    IF user_choice = assistant_choice THEN aiko
    ELSE IF \/ (user_choice = gu /\ assistant_choice = choki)
            \/ (user_choice = choki /\ assistant_choice = pa)
            \/ (user_choice = pa /\ assistant_choice = choki)
         THEN kachi
         ELSE make

\* lines 107-114
result_of(user_choice, assistant_choice) ==
    IF user_choice = assistant_choice THEN aiko
    ELSE IF \/ (user_choice = gu /\ assistant_choice = choki)
            \/ (user_choice = choki /\ assistant_choice = pa)
            \/ (user_choice = pa /\ assistant_choice = gu)
         THEN kachi
         ELSE make

\* the round number taken as len(history), without the + 1
add_to_history_zero_based(h, user_choice, assistant_choice, result) ==
    Append(h, [round |-> Len(h),
               you |-> user_choice,
               assistant |-> assistant_choice,
               result |-> result])

\* history.insert(0, {...}) in place of history.append({...})
add_to_history_in_front(h, user_choice, assistant_choice, result) ==
    <<[round |-> Len(h) + 1,
       you |-> user_choice,
       assistant |-> assistant_choice,
       result |-> result]>> \o h

\* the record appended by the node and again through the tool
add_to_history_twice(h, user_choice, assistant_choice, result) ==
    Append(Append(h, [round |-> Len(h) + 1,
                      you |-> user_choice,
                      assistant |-> assistant_choice,
                      result |-> result]),
           [round |-> Len(h) + 2,
            you |-> user_choice,
            assistant |-> assistant_choice,
            result |-> result])

\* lines 38-46: the list after history.append({...})
add_to_history(h, user_choice, assistant_choice, result) ==
    Append(h, [round |-> Len(h) + 1,
               you |-> user_choice,
               assistant |-> assistant_choice,
               result |-> result])

\* the completion texts llm.invoke is taken to return
Prefixes ==
    { <<>>, <<" ">>, LeadingMarker, LeadingMarker \o LeadingMarker,
      <<"[", "sen", "taku", ":">> }
Bodies ==
    { gu, choki, pa, <<>>, <<"gu_h", "bar">>, choki \o <<" ">> }
Suffixes ==
    { <<>>, ClosingMarker, ClosingMarker \o ClosingMarker,
      ClosingMarker \o <<" ", "d", "e", "s", "u">> }
Responses ==
    { p \o b \o s : p \in Prefixes, b \in Bodies, s \in Suffixes }
    \cup { <<"I", " ", "c", "a", "n", "n", "o", "t", " ", "d", "e", "c", "i", "d", "e">>,
           <<"[", "sen", "taku">> \o LeadingMarker \o <<":", " ">> \o gu \o ClosingMarker,
           <<"zsp", "tab">> \o LeadingMarker \o pa \o ClosingMarker \o <<" ", "nl">>,
           gu \o LeadingMarker,
           LeadingMarker \o choki \o <<"nl">> \o ClosingMarker }

\* the lines input() is taken to return
Inputs ==
    { gu, choki, pa, yameru, <<>>, <<"gu_h", "bar">>, gu \o <<" ">>,
      <<"R", "o", "c", "k">> }

\* lines 73-96, llm.invoke returning content; k is the random index
choose_assistant_move(content, k) ==
    /\ pc = "choose_move"
    /\ prompt' = format(state.user_choice, get_history(history))
    /\ llm_calls' = llm_calls + 1
    /\ response' = content
    /\ LET candidate == extract_choice(content)
       IN  /\ state' = [state EXCEPT !.assistant_choice = checked_choice(candidate, k)]
           /\ drew' = ~InChoices(candidate)
    /\ pc' = edge("choose_move")
    /\ UNCHANGED <<history, user_input, completed>>

\* llm.invoke raising, caught in the node and answered by a random move
llm_invoke_raises_caught ==
    /\ pc = "choose_move"
    /\ prompt' = format(state.user_choice, history)
    /\ llm_calls' = llm_calls + 1
    /\ \E k \in DOMAIN choices : state' = [state EXCEPT !.assistant_choice = choices[k]]
    /\ drew' = TRUE
    /\ pc' = edge("choose_move")
    /\ UNCHANGED <<history, user_input, response, completed>>

\* lines 73-83, llm.invoke raising: nothing catches it, in the node, in
\* app.invoke or in the loop (line 169), so the program ends with the error
llm_invoke_raises ==
    /\ pc = "choose_move"
    /\ prompt' = format(state.user_choice, history)
    /\ llm_calls' = llm_calls + 1
    /\ pc' = "raised"
    /\ UNCHANGED <<history, state, user_input, response, drew, completed>>

\* lines 98-126
determine_result_and_update ==
    /\ pc = "determine_result"
    /\ LET user_choice == state.user_choice
           assistant_choice == state.assistant_choice
           result == result_of(user_choice, assistant_choice)
       IN  /\ state' = [state EXCEPT !.result = result]
           /\ history' = add_to_history(history, user_choice, assistant_choice, result)
    /\ pc' = edge("determine_result")
    /\ UNCHANGED <<user_input, response, drew, prompt, llm_calls, completed>>

-----------------------------------------------------------------------------
(* The main loop                                                            *)

\* the loop without the test of line 164
main_loop_input_unvalidated(line) ==
    /\ pc = "input"
    /\ user_input' = line
    /\ IF line = yameru
       THEN /\ pc' = "quit"
            /\ UNCHANGED <<state, response, drew>>
       ELSE /\ completed < MaxRounds
            /\ pc' = entry_point
            /\ state' = [user_choice |-> line, assistant_choice |-> Absent,
                         result |-> Absent]
            /\ response' = Absent
            /\ drew' = FALSE
    /\ UNCHANGED <<history, prompt, llm_calls, completed>>

\* lines 155-169: one input() and what the loop does with it
main_loop_input(line) ==
    /\ pc = "input"
    /\ user_input' = line
    /\ IF line = yameru
       THEN /\ pc' = "quit"
            /\ UNCHANGED <<state, response, drew>>
       ELSE IF ~InChoices(line)
       THEN /\ pc' = "input"
            /\ UNCHANGED <<state, response, drew>>
       ELSE /\ completed < MaxRounds
            /\ pc' = entry_point
            /\ state' = [user_choice |-> line, assistant_choice |-> Absent,
                         result |-> Absent]
            /\ response' = Absent
            /\ drew' = FALSE
    /\ UNCHANGED <<history, prompt, llm_calls, completed>>

\* lines 169-174: app.invoke returns, the result is printed, the loop repeats;
\* the node's locals (response, whether it drew) are gone by then
main_loop_show ==
    /\ pc = "END"
    /\ pc' = "input"
    /\ completed' = completed + 1
    /\ response' = Absent
    /\ drew' = FALSE
    /\ UNCHANGED <<history, state, user_input, prompt, llm_calls>>

-----------------------------------------------------------------------------
(* The page program app.py                                                  *)

\* app.py:13
st_choices == <<gu, choki, pa>>

\* x in choices (app.py:59)
st_InChoices(x) == \E i \in DOMAIN st_choices : st_choices[i] = x

\* app.py:56
st_extract_choice(content) ==
    replace(replace(strip(content), LeadingMarker, <<>>), ClosingMarker, <<>>)

\* app.py:59-60
st_checked_choice(candidate, k) ==
    IF ~st_InChoices(candidate) THEN st_choices[k] ELSE candidate

\* app.py:35-42 and 53: the same template, with the one placeholder {history}
st_format(user_choice, h) ==
    <<"You are the opponent in rock-paper-scissors.", "Past history: ">>
        \o str(h)
        \o <<"Choices: ">> \o gu \o <<", ">> \o choki \o <<", ">> \o pa
        \o <<"Considering the user's tendency, return the hand most likely ",
             "to win in the form [choice: hand].">>

\* app.py:110
st_entry_point == "choose_move"

\* app.py:106-107
st_edge(node) ==
    IF node = "choose_move" THEN "determine_result" ELSE "END"

\* app.py:72-79
st_result_of(user_choice, assistant_choice) ==
    IF user_choice = assistant_choice THEN aiko
    ELSE IF \/ (user_choice = gu /\ assistant_choice = choki)
            \/ (user_choice = choki /\ assistant_choice = pa)
            \/ (user_choice = pa /\ assistant_choice = gu)
         THEN kachi
         ELSE make

\* app.py:85-90: state["history"].append({...}), the list being the session's
st_append(h, user_choice, assistant_choice, result) ==
    Append(h, [round |-> Len(h) + 1,
               you |-> user_choice,
               assistant |-> assistant_choice,
               result |-> result])

\* the button that returns True in a script run: one of the three, or none
\* (a rerun of the script that no click caused)
Buttons == { Absent, gu, choki, pa }

\* app.py:131-151: a script run up to app.invoke; b is the button clicked
script_run(b) ==
    /\ st_pc = "idle"
    /\ b # Absent => clicks < MaxRounds
    /\ button' = b
    /\ clicks' = IF b # Absent THEN clicks + 1 ELSE clicks
    /\ LET user_choice == IF b # Absent THEN b ELSE session.user_choice
       IN  /\ session' = [session EXCEPT !.user_choice = user_choice]
           /\ IF user_choice # Absent
              THEN /\ Len(st_history) < MaxRounds
                   /\ st_state' = [user_choice |-> user_choice,
                                   assistant_choice |-> <<>>, result |-> ""]
                   /\ st_pc' = st_entry_point
              ELSE /\ st_pc' = "idle"
                   /\ UNCHANGED st_state
    /\ UNCHANGED <<st_history, st_prompt>>

\* app.py:48-64, llm.invoke returning content; k is the random index
st_choose_assistant_move(content, k) ==
    /\ st_pc = "choose_move"
    /\ st_prompt' = st_format(st_state.user_choice, st_history)
    /\ st_state' = [st_state EXCEPT
           !.assistant_choice = st_checked_choice(st_extract_choice(content), k)]
    /\ st_pc' = st_edge("choose_move")
    /\ UNCHANGED <<st_history, session, button, clicks>>

\* app.py:48-53, llm.invoke raising: Streamlit shows the error and the script
\* run ends there; the session and its state stay
st_llm_invoke_raises ==
    /\ st_pc = "choose_move"
    /\ st_prompt' = st_format(st_state.user_choice, st_history)
    /\ st_pc' = "idle"
    /\ UNCHANGED <<st_history, session, st_state, button, clicks>>

\* app.py:66-92
st_determine_result_and_update ==
    /\ st_pc = "determine_result"
    /\ LET user_choice == st_state.user_choice
           assistant_choice == st_state.assistant_choice
           result == st_result_of(user_choice, assistant_choice)
       IN  /\ st_state' = [st_state EXCEPT !.result = result]
           /\ st_history' = st_append(st_history, user_choice, assistant_choice, result)
    /\ st_pc' = st_edge("determine_result")
    /\ UNCHANGED <<session, button, clicks, st_prompt>>

\* app.py:153-170: the result goes to the session and the page is drawn
script_show ==
    /\ st_pc = "END"
    /\ session' = [session EXCEPT !.assistant_choice = st_state.assistant_choice,
                                  !.result = st_state.result]
    /\ st_pc' = "idle"
    /\ UNCHANGED <<st_history, st_state, button, clicks, st_prompt>>

-----------------------------------------------------------------------------
(* The programs                                                             *)

\* app_cli.py at its start
cli_Init ==
    /\ history = <<>>
    /\ state = [user_choice |-> Absent, assistant_choice |-> Absent, result |-> Absent]
    /\ user_input = Absent
    /\ pc = "input"
    /\ response = Absent
    /\ drew = FALSE
    /\ prompt = Absent
    /\ llm_calls = 0
    /\ completed = 0


\* app.py before the first script run of a session (lines 121-129)
page_Init ==
    /\ st_history = <<>>
    /\ session = [user_choice |-> Absent, assistant_choice |-> Absent, result |-> Absent]
    /\ st_state = [user_choice |-> Absent, assistant_choice |-> Absent, result |-> Absent]
    /\ st_pc = "idle"
    /\ button = Absent
    /\ clicks = 0
    /\ st_prompt = Absent

Init == cli_Init /\ page_Init

\* the console program running
Next ==
    \/ \E line \in Inputs : main_loop_input(line) /\ UNCHANGED page_vars
    \/ \E content \in Responses, k \in DOMAIN choices :
          choose_assistant_move(content, k) /\ UNCHANGED page_vars
    \/ llm_invoke_raises /\ UNCHANGED page_vars
    \/ determine_result_and_update /\ UNCHANGED page_vars
    \/ main_loop_show /\ UNCHANGED page_vars

Spec == Init /\ [][Next]_vars

\* the page program running, with script runs caused by clicks or not
PageNext ==
    \/ \E b \in Buttons : script_run(b) /\ UNCHANGED cli_vars
    \/ \E content \in Responses, k \in DOMAIN st_choices :
          st_choose_assistant_move(content, k) /\ UNCHANGED cli_vars
    \/ st_llm_invoke_raises /\ UNCHANGED cli_vars
    \/ st_determine_result_and_update /\ UNCHANGED cli_vars
    \/ script_show /\ UNCHANGED cli_vars

PageSpec == Init /\ [][PageNext]_vars

-----------------------------------------------------------------------------
(* The two programs side by side, given the same completions and draws      *)

\* the moves a human can enter (console) or click (page)
HumanMoves == { gu, choki, pa }

\* the completion texts given to both programs
PairResponses ==
    { LeadingMarker \o gu \o ClosingMarker,
      LeadingMarker \o choki \o ClosingMarker,
      LeadingMarker \o pa \o ClosingMarker,
      pa,
      <<>>,
      <<"I", " ", "c", "a", "n", "n", "o", "t", " ", "d", "e", "c", "i", "d", "e">> }

\* app_cli.py:157-169 and app.py:134-151: the human's move for each program
pair_input(line, b) == main_loop_input(line) /\ script_run(b)

\* app_cli.py:73-96 and app.py:48-64 with the same completion and draw
pair_choose(content, k) ==
    choose_assistant_move(content, k) /\ st_choose_assistant_move(content, k)

\* app_cli.py:83 and app.py:53, llm.invoke raising in both
pair_raises == llm_invoke_raises /\ st_llm_invoke_raises

\* app_cli.py:98-126 and app.py:66-92
pair_determine == determine_result_and_update /\ st_determine_result_and_update

\* app_cli.py:169-174 and app.py:153-170
pair_show == main_loop_show /\ script_show

\* both programs given the same human moves
EquivNext ==
    \/ \E u \in HumanMoves : pair_input(u, u)
    \/ \E content \in PairResponses, k \in DOMAIN choices : pair_choose(content, k)
    \/ pair_raises
    \/ pair_determine
    \/ pair_show

EquivSpec == Init /\ [][EquivNext]_vars

\* the two programs given human moves chosen independently
TwinNext ==
    \/ \E u1 \in HumanMoves, u2 \in HumanMoves : pair_input(u1, u2)
    \/ \E content \in PairResponses, k \in DOMAIN choices : pair_choose(content, k)
    \/ pair_raises
    \/ pair_determine
    \/ pair_show

TwinSpec == Init /\ [][TwinNext]_vars

\* app.invoke runs the node after choose_move without waiting for anything:
\* once determine_result_and_update is due it runs
LiveSpec == Spec /\ WF_vars(determine_result_and_update /\ UNCHANGED page_vars)

-----------------------------------------------------------------------------
(* determine_result_and_update called directly, on any state dict           *)

\* the values passed as user_choice and assistant_choice: the three moves
\* and a text that is no move
AnyMoves == { gu, choki, pa, <<"R", "o", "c", "k">> }

\* line 98: a call determine_result_and_update(state) with the history as it is
call_resolver(user_choice, assistant_choice) ==
    /\ pc = "caller"
    /\ Len(history) < MaxCalls
    /\ state' = [user_choice |-> user_choice, assistant_choice |-> assistant_choice,
                 result |-> Absent]
    /\ pc' = "determine_result"
    /\ UNCHANGED <<history, user_input, response, drew, prompt, llm_calls, completed>>

\* line 126: return state
resolver_returns ==
    /\ pc = "END"
    /\ pc' = "caller"
    /\ UNCHANGED <<history, state, user_input, response, drew, prompt, llm_calls, completed>>

ResolverInit ==
    /\ page_Init
    /\ history = <<>>
    /\ state = [user_choice |-> Absent, assistant_choice |-> Absent, result |-> Absent]
    /\ user_input = Absent
    /\ pc = "caller"
    /\ response = Absent
    /\ drew = FALSE
    /\ prompt = Absent
    /\ llm_calls = 0
    /\ completed = 0

ResolverNext ==
    \/ \E u \in AnyMoves, a \in AnyMoves : call_resolver(u, a) /\ UNCHANGED page_vars
    \/ determine_result_and_update /\ UNCHANGED page_vars
    \/ resolver_returns /\ UNCHANGED page_vars

ResolverSpec == ResolverInit /\ [][ResolverNext]_vars

-----------------------------------------------------------------------------
(* Properties                                                               *)

\* the three legal moves, and the pairs (winner, loser) of the game
LegalMoves == { gu, choki, pa }
Beats == { <<gu, choki>>, <<choki, pa>>, <<pa, gu>> }

\* the outcome names of the specification
TIE == aiko
HUMAN_WIN == kachi
OPPONENT_WIN == make

\* C1: whenever determine_result_and_update has run on two legal moves, with
\* whatever history, the result is TIE iff the moves are equal, HUMAN_WIN iff
\* the human's move beats the opponent's, OPPONENT_WIN otherwise, and that is
\* the result written to the new record.
C1_OutcomeTable ==
    (pc = "END" /\ state.user_choice \in LegalMoves
                /\ state.assistant_choice \in LegalMoves)
    => LET u == state.user_choice
           a == state.assistant_choice
           r == state.result
       IN  /\ (r = TIE) <=> (u = a)
           /\ (r = HUMAN_WIN) <=> (<<u, a>> \in Beats)
           /\ (r = OPPONENT_WIN) <=> (u # a /\ <<u, a>> \notin Beats)
           /\ r \in {TIE, HUMAN_WIN, OPPONENT_WIN}
           /\ history[Len(history)].result = r

C1_Witness ==
    /\ pc = "END"
    /\ Len(history) = 3
    /\ state.user_choice = pa
    /\ state.assistant_choice = gu
    /\ state.result = HUMAN_WIN

\* C2: whatever the completion returned and whatever the history, the move
\* choose_assistant_move has stored as the opponent's move is a legal move,
\* and so is the opponent's move of every record.
C2_OpponentMoveLegal ==
    /\ pc \in {"determine_result", "END"} => state.assistant_choice \in LegalMoves
    /\ \A i \in 1..Len(history) : history[i].assistant \in LegalMoves

C2_Witness ==
    /\ pc = "determine_result"
    /\ response = <<"I", " ", "c", "a", "n", "n", "o", "t", " ", "d", "e", "c", "i", "d", "e">>
    /\ drew
    /\ Len(history) = 1

\* C3: after N completed rounds the history has N records, the record at
\* position i has round number i, and both moves of every record are legal.
C3_HistoryIndexed ==
    /\ pc # "END" => Len(history) = completed
    /\ pc = "END" => Len(history) = completed + 1
    /\ \A i \in 1..Len(history) :
        /\ history[i].round = i
        /\ history[i].you \in LegalMoves
        /\ history[i].assistant \in LegalMoves

C3_Witness ==
    /\ pc = "input"
    /\ completed = MaxRounds
    /\ Len(history) = MaxRounds

\* C4: each run of determine_result_and_update makes the history one record
\* longer and the history before it is a prefix of the history after it.
C4_AppendOnly ==
    [][pc = "determine_result"
        => /\ Len(history') = Len(history) + 1
           /\ SubSeq(history', 1, Len(history)) = history]_vars

C4_Witness ==
    /\ pc = "END"
    /\ Len(history) = 3
    /\ history[1].you # history[2].you

\* s[i+1..j] is what is left of s without its leading and trailing whitespace
CoreAt(s, i, j) ==
    /\ i <= j
    /\ i = j \/ (s[i + 1] \notin Whitespace /\ s[j] \notin Whitespace)
    /\ \A k \in 1..i : s[k] \in Whitespace
    /\ \A k \in (j + 1)..Len(s) : s[k] \in Whitespace

\* s is core with whitespace around it, core having none at its ends
Surrounds(s, core) ==
    \E i \in 0..Len(s), j \in 0..Len(s) :
        CoreAt(s, i, j) /\ SubSeq(s, i + 1, j) = core

\* the form the prompt asks for: marker, move name m, closing marker, with
\* whitespace allowed around the whole
RequestedForm(s, m) == Surrounds(s, LeadingMarker \o m \o ClosingMarker)

HasPrefix(s, p) == Len(s) >= Len(p) /\ SubSeq(s, 1, Len(p)) = p

\* s is the text m with any number of whole leading markers and of closing
\* markers put in anywhere
RECURSIVE Decorated(_, _)
Decorated(s, m) ==
    IF s = <<>> THEN m = <<>>
    ELSE IF HasPrefix(s, ClosingMarker)
         THEN Decorated(SubSeq(s, Len(ClosingMarker) + 1, Len(s)), m)
    ELSE IF HasPrefix(s, LeadingMarker)
         THEN Decorated(SubSeq(s, Len(LeadingMarker) + 1, Len(s)), m)
    ELSE m # <<>> /\ Head(s) = Head(m) /\ Decorated(Tail(s), Tail(m))

\* the responses from which the move m is taken
Names(s, m) ==
    \E i \in 0..Len(s), j \in 0..Len(s) :
        CoreAt(s, i, j) /\ Decorated(SubSeq(s, i + 1, j), m)

\* C5 as stated: every response that is not of the requested form (empty,
\* decoration missing or repeated, synonym, prose, anything else) makes
\* choose_assistant_move draw the move at random.
C5_FallbackOnEveryDeviation ==
    (pc = "determine_result" /\ ~(\E m \in LegalMoves : RequestedForm(response, m)))
    => drew

\* C5, amended: the move is drawn at random exactly when the response, without
\* its surrounding whitespace and with every whole leading marker and every
\* closing marker taken out, is not a legal move name; a legal move name with
\* markers missing or repeated is taken from the response without a draw.
C5_FallbackExactly ==
    pc = "determine_result"
    => LET named == {m \in LegalMoves : Names(response, m)}
       IN  /\ drew <=> named = {}
           /\ \A m \in named : state.assistant_choice = m
           /\ response = <<>> => drew

C5_Witness ==
    /\ pc = "determine_result"
    /\ response = LeadingMarker \o <<"gu_h", "bar">> \o ClosingMarker
    /\ drew
    /\ state.assistant_choice = pa

\* C6 as stated: determine_result_and_update called with a move that is not
\* legal raises, and appends nothing.
C6_FailsFast ==
    [][(pc = "determine_result"
         /\ (state.user_choice \notin LegalMoves \/ state.assistant_choice \notin LegalMoves))
        => (pc' = "raised" /\ history' = history)]_vars

\* C7: when the response is of the requested form for the legal move m, the
\* move stored is m, no random draw was made, and the record appended is
\* {len(history)+1, human move, m, outcome(human move, m)}.
C7_RequestedFormRound ==
    [][\A m \in LegalMoves :
        (pc = "determine_result" /\ RequestedForm(response, m))
        => /\ ~drew
           /\ state.assistant_choice = m
           /\ history' = Append(history,
                [round |-> Len(history) + 1,
                 you |-> state.user_choice,
                 assistant |-> m,
                 result |-> IF state.user_choice = m THEN TIE
                            ELSE IF <<state.user_choice, m>> \in Beats THEN HUMAN_WIN
                            ELSE OPPONENT_WIN])]_vars

C7_Witness ==
    /\ pc = "END"
    /\ response = LeadingMarker \o choki \o ClosingMarker
    /\ history = <<[round |-> 1, you |-> gu, assistant |-> choki, result |-> HUMAN_WIN]>>

\* C8: when llm.invoke raises, the program ends with the error: no opponent
\* move and no result are set, nothing runs afterwards, and the history is
\* the one from before the round.
C8_FailurePropagates ==
    [][/\ pc # "raised"
       /\ (pc = "choose_move" /\ response' = Absent)
           => /\ pc' = "raised"
              /\ history' = history
              /\ state' = state
       /\ pc' = "raised"
           => /\ state'.assistant_choice = Absent
              /\ state'.result = Absent
              /\ Len(history') = completed']_vars

C8_Witness ==
    /\ pc = "raised"
    /\ llm_calls = 2
    /\ Len(history) = 1

\* C9: an input that is neither a legal move nor the quit word starts no
\* round: no completion call, no record, state and history unchanged, and the
\* loop asks again; every human move in the history is legal.
C9_InvalidInputRejected ==
    /\ [][(pc = "input" /\ user_input' \notin LegalMoves /\ user_input' # yameru)
           => /\ pc' = "input"
              /\ history' = history
              /\ state' = state
              /\ llm_calls' = llm_calls
              /\ completed' = completed]_vars
    /\ [](\A i \in 1..Len(history) : history[i].you \in LegalMoves)

C9_Witness ==
    /\ pc = "input"
    /\ user_input = <<"gu_h", "bar">>
    /\ Len(history) = 1
    /\ llm_calls = 1

\* C10: a round goes choose_move, determine_result, END in this order:
\* determine_result is entered only from choose_move and with a legal
\* opponent move, the history changes exactly on the step into END, no step
\* goes back within a round, and a round that has reached determine_result
\* reaches END.
C10_RoundOrder ==
    /\ [][/\ pc' = "choose_move" => pc = "input"
          /\ pc' = "determine_result"
              => (pc = "choose_move" /\ state'.assistant_choice \in LegalMoves)
          /\ pc' = "END" => pc = "determine_result"
          /\ pc = "choose_move" => pc' \in {"determine_result", "raised"}
          /\ pc = "determine_result" => pc' = "END"
          /\ pc = "END" => pc' = "input"
          /\ (history' # history) <=> (pc' = "END")]_vars
    /\ (pc = "determine_result") ~> (pc = "END")

C10_Witness ==
    /\ pc = "END"
    /\ Len(history) = 2
    /\ completed = 1
    /\ history[2].assistant = state.assistant_choice

\* h2 is h1 with one record added at the end
OneAppended(h1, h2) ==
    Len(h2) = Len(h1) + 1 /\ SubSeq(h2, 1, Len(h1)) = h1

\* C11: in both programs the history changes only in a step of
\* determine_result_and_update, and then by one record appended;
\* choose_assistant_move leaves it as it is; between rounds the history has
\* one record per round run.
C11_OnlyResolverAppends ==
    /\ [][/\ history' # history
              => (pc = "determine_result" /\ OneAppended(history, history'))
          /\ st_history' # st_history
              => (st_pc = "determine_result" /\ OneAppended(st_history, st_history'))
          /\ pc = "choose_move" => history' = history
          /\ st_pc = "choose_move" => st_history' = st_history
          /\ pc = "determine_result" => history' # history
          /\ st_pc = "determine_result" => st_history' # st_history]_vars
    /\ [](pc \in {"input", "raised"}
           => (Len(history) = completed /\ Len(st_history) = completed))

C11_Witness ==
    /\ pc = "END"
    /\ st_pc = "END"
    /\ Len(history) = 2
    /\ Len(st_history) = 2
    /\ prompt = format(state.user_choice, SubSeq(history, 1, 1))

\* C12: the prompt of round k is the one made from the k-1 records of the
\* rounds before it, in both programs, and it is not the one made from the
\* history that has the round's own record.
C12_PromptHasPreviousRounds ==
    pc \in {"determine_result", "END"}
    => /\ Len(history) = completed + (IF pc = "END" THEN 1 ELSE 0)
       /\ prompt = format(state.user_choice, SubSeq(history, 1, completed))
       /\ st_prompt = st_format(st_state.user_choice, SubSeq(st_history, 1, completed))
       /\ pc = "END" => /\ prompt # format(state.user_choice, history)
                        /\ st_prompt # st_format(st_state.user_choice, st_history)

C12_Witness ==
    /\ pc = "END"
    /\ completed = 1
    /\ Len(history) = 2
    /\ prompt = format(state.user_choice, <<history[1]>>)

\* C13 as stated: in the page program the history never has more records
\* than there were clicks, and a script run in which no button was clicked
\* appends nothing.
C13_OneRecordPerClick ==
    /\ [](Len(st_history) <= clicks)
    /\ [][(st_pc = "determine_result" /\ button = Absent)
           => st_history' = st_history]_vars

C15_VariantsAgree ==
    /\ history = st_history
    /\ pc = "END" => /\ st_pc = "END"
                     /\ state.user_choice = st_state.user_choice
                     /\ state.assistant_choice = st_state.assistant_choice
                     /\ state.result = st_state.result

C15_Witness ==
    /\ pc = "END"
    /\ st_pc = "END"
    /\ Len(history) = 2
    /\ Len(st_history) = 2
    /\ state.result = st_state.result

====
